---- MODULE Spec2Model ----
(***************************************************************************)
(* Decision loop (AgentCore), State Store (StateManager) with its         *)
(* persistence, and the Orchestrator (AgentOrchestrator: workflows, task   *)
(* queue, run-loop), modelled from the TypeScript sources.                 *)
(*                                                                         *)
(* Abstractions of the data:                                               *)
(*  - a document text is one of the classes in Docs (absent, unparsable,   *)
(*    schema-invalid, schema-valid, ...);                                  *)
(*  - a change set is absent, or a sequence of change descriptors that     *)
(*    keep what the code reads: whether the text matches the first rule's  *)
(*    pattern, the class of the description length, the impact areas;      *)
(*  - timestamps are the single clock reading Now;                         *)
(*  - numbers with one decimal (confidence, impact score) are kept in      *)
(*    tenths.                                                              *)
(***************************************************************************)
EXTENDS Integers, Sequences, FiniteSets, TLC

VARIABLES config, memories, taskHistory, stats, undefinedFields, file,
          running, pc, task, observation, decision, result, outcome,
          orchConfig, orchRunning, taskQueue, wf,
          lastOp, inserted, failedRuns, iterations, runs, apiCalls, saved, qlog

vars == <<config, memories, taskHistory, stats, undefinedFields, file,
          running, pc, task, observation, decision, result, outcome,
          orchConfig, orchRunning, taskQueue, wf,
          lastOp, inserted, failedRuns, iterations, runs, apiCalls, saved, qlog>>

storeVars == <<memories, taskHistory, stats>>

coreVars == <<running, pc, task, observation, decision, result, outcome>>

ghostVars == <<inserted, failedRuns, iterations, runs>>

\* the AgentOrchestrator's own state
orchVars == <<orchConfig, orchRunning, taskQueue, wf, qlog>>

(***************************************************************************)
(* Bounds of the model                                                     *)
(***************************************************************************)
MaxCap == 2
MaxApiCalls == 4
MaxRuns == 1
MaxIterations == 2
MaxRetryRuns == 5
MaxDocs == 3
MaxTasks == 3
MaxPriority == 1
MaxConfiguredRetries == 2
MaxChanges == 4
MaxQueued == 2

(***************************************************************************)
(* Program constants                                                       *)
(***************************************************************************)
DefaultMaxMemories == 100
RetryCeiling == 3
RecentCount == 5
DefaultMaxRetries == 3
\* autoApplyThreshold 0.7 and the review limit 0.7, in tenths
DefaultAutoApplyThreshold == 7
ReviewLimit == 7

Now == "now"
None == "none"

TaskIds == {"task-a", "7"}

\* The array index a property key denotes when it is a canonical numeric
\* string, -1 otherwise (own-property order of a JS object puts such keys
\* first, in ascending order).
ArrayIndex(id) == IF id = "7" THEN 7 ELSE -1

Last(s) == s[Len(s)]

Min(a, b) == IF a < b THEN a ELSE b

Max(a, b) == IF a > b THEN a ELSE b

\* the sequences over S of length at most n
RECURSIVE SeqsUpTo(_, _)
SeqsUpTo(S, n) ==
  IF n = 0 THEN {<<>>}
  ELSE SeqsUpTo(S, n - 1) \cup {Append(q, x) : q \in SeqsUpTo(S, n - 1), x \in S}

\* Array.prototype.slice(-n) for n > 0
SliceLast(s, n) == SubSeq(s, Max(1, Len(s) - n + 1), Len(s))

(***************************************************************************)
(* Types (agent/types.ts)                                                  *)
(***************************************************************************)
AgentDecision(action, reasoning, confidence, final, attempts, impactScore) ==
  [action |-> action, reasoning |-> reasoning, confidence |-> confidence,
   final |-> final, attempts |-> attempts, impactScore |-> impactScore]

\* task.data.changes: undefined, or an array of changes
NoChanges == [present |-> FALSE, list |-> <<>>]

Changes(list) == [present |-> TRUE, list |-> list]

\* What Execute returns; success is TRUE only when the property is present
\* and true, error is None when the property is absent, and so is reason
\* (only the result of a skip has one); impactScore is -1 and changes is
\* NoChanges when absent (only the result of a review has them).
ExecResult(success, error, updatedYaml, skipped, requiresReview) ==
  [success |-> success, error |-> error, updatedYaml |-> updatedYaml,
   skipped |-> skipped, requiresReview |-> requiresReview, reason |-> None,
   impactScore |-> -1, changes |-> NoChanges]

NoDecision == AgentDecision(None, None, 0, FALSE, -1, -1)
NoResult == ExecResult(FALSE, None, None, FALSE, FALSE)

\* The AgentMemory built by updateState: success is !result.error
AgentMemory(d, r) ==
  [timestamp |-> Now, decision |-> d, result |-> r, success |-> (r.error = None)]

EmptyStats == [totalTasks |-> 0, successfulTasks |-> 0, failedTasks |-> 0,
               lastRunTime |-> None]

(***************************************************************************)
(* State Store (StateManager)                                              *)
(***************************************************************************)
\* this.config.maxMemories || 100 ; config = 0 stands for "not configured"
maxMemories(cfg) == IF cfg = 0 THEN DefaultMaxMemories ELSE cfg

\* taskHistory is a Map: a sequence of entries in insertion order
HasKey(th, id) == \E i \in 1..Len(th) : th[i].id = id

KeyIndex(th, id) == CHOOSE i \in 1..Len(th) : th[i].id = id

\* StateManager.getTaskHistory
getTaskHistory(th, id) == IF HasKey(th, id) THEN th[KeyIndex(th, id)].history ELSE <<>>

\* StateManager.getRecentMemories
getRecentMemories(mem, count) == IF count = 0 THEN mem ELSE SliceLast(mem, count)

\* the memories array after addMemory(memory)
AddMemoryKeepFirst(mem, memory, cfg) ==
  LET pushed == Append(mem, memory) IN
  IF Len(pushed) > maxMemories(cfg) THEN SubSeq(pushed, 1, maxMemories(cfg)) ELSE pushed
AddMemoryResult(mem, memory, cfg) ==
  LET pushed == Append(mem, memory) IN
  IF Len(pushed) > maxMemories(cfg) THEN SliceLast(pushed, maxMemories(cfg)) ELSE pushed

\* the Map after taskHistory.get(taskId).push(memory), creating the entry
PushHistoryReplacing(th, taskId, memory) ==
  IF HasKey(th, taskId)
  THEN [th EXCEPT ![KeyIndex(th, taskId)].history = <<memory>>]
  ELSE Append(th, [id |-> taskId, history |-> <<memory>>])
PushHistory(th, taskId, memory) ==
  IF HasKey(th, taskId)
  THEN [th EXCEPT ![KeyIndex(th, taskId)].history = Append(@, memory)]
  ELSE Append(th, [id |-> taskId, history |-> <<memory>>])

\* the stats after addTaskHistory
StatsCountingAttempts(st, th, memory) ==
  [totalTasks |-> st.totalTasks + 1,
   successfulTasks |-> IF memory.success THEN st.successfulTasks + 1 ELSE st.successfulTasks,
   failedTasks |-> IF memory.success THEN st.failedTasks ELSE st.failedTasks + 1,
   lastRunTime |-> memory.timestamp]
StatsAlwaysSuccessful(st, th, memory) ==
  [totalTasks |-> Len(th),
   successfulTasks |-> st.successfulTasks + 1,
   failedTasks |-> st.failedTasks,
   lastRunTime |-> memory.timestamp]
UpdateStats(st, th, memory) ==
  [totalTasks |-> Len(th),
   successfulTasks |-> IF memory.success THEN st.successfulTasks + 1 ELSE st.successfulTasks,
   failedTasks |-> IF memory.success THEN st.failedTasks ELSE st.failedTasks + 1,
   lastRunTime |-> memory.timestamp]

(***************************************************************************)
(* Persistence: JSON.stringify of {...state, taskHistory:                  *)
(* Object.fromEntries(map)} and back                                       *)
(***************************************************************************)
RECURSIVE InsertByIndex(_, _)
InsertByIndex(sorted, e) ==
  IF sorted = <<>> THEN <<e>>
  ELSE IF ArrayIndex(e.id) < ArrayIndex(Head(sorted).id) THEN <<e>> \o sorted
  ELSE <<Head(sorted)>> \o InsertByIndex(Tail(sorted), e)

RECURSIVE SortByIndex(_)
SortByIndex(s) == IF s = <<>> THEN <<>> ELSE InsertByIndex(SortByIndex(Tail(s)), Head(s))

IsIndexKey(e) == ArrayIndex(e.id) >= 0

IsNameKey(e) == ArrayIndex(e.id) < 0

\* Object.fromEntries(map): the own properties of the object, in the order
\* JSON.stringify and Object.entries enumerate them
ObjectFromEntries(th) == SortByIndex(SelectSeq(th, IsIndexKey)) \o SelectSeq(th, IsNameKey)

\* the document save() writes
SerializeBeforePush(mem, th, st) ==
  [memories |-> SubSeq(mem, 1, Len(mem) - 1), taskHistory |-> ObjectFromEntries(th),
   stats |-> st]
Serialize(mem, th, st) ==
  [memories |-> mem, taskHistory |-> ObjectFromEntries(th), stats |-> st]

\* new Map(Object.entries(parsed.taskHistory))
MapFromObject(obj) == obj

\* The persisted file: absent, text JSON.parse rejects ("partial"), or a JSON
\* object; lacks names the properties among memories, taskHistory and stats
\* the object does not have (doc holds an empty placeholder for them).
NoFile == [kind |-> "absent", doc |-> Serialize(<<>>, <<>>, EmptyStats), lacks |-> {}]
PartialFile == [kind |-> "partial", doc |-> Serialize(<<>>, <<>>, EmptyStats), lacks |-> {}]
JsonFile(doc) == [kind |-> "json", doc |-> doc, lacks |-> {}]

\* JSON.stringify leaves out the properties whose value is undefined
Stringify(doc, undefined) == [kind |-> "json", doc |-> doc, lacks |-> undefined]

SaveOutcomes == {"ok", "fail", "partial"}

\* the persisted file after save(): written, untouched (the directory or the
\* open failed) or cut short (the write failed after truncation)
FileAfterSaveLastOnly(f, mem, th, st, undefined, how) ==
  CASE how = "ok" -> Stringify(Serialize(SubSeq(mem, Len(mem), Len(mem)), th, st), undefined)
    [] how = "fail" -> f
    [] OTHER -> PartialFile
FileAfterSave(f, mem, th, st, undefined, how) ==
  CASE how = "ok" -> Stringify(Serialize(mem, th, st), undefined)
    [] how = "fail" -> f
    [] OTHER -> PartialFile

\* the outcomes of the last two save() calls, oldest first
SavedAfter(log, how) == [before |-> log.last, last |-> how]

\* load() replaces the state only when the file exists and parses
Loadable(f) == f.kind = "json"

\* the state load() builds from the parsed document
LoadedState(f) ==
  [memories |-> f.doc.memories,
   taskHistory |-> MapFromObject(f.doc.taskHistory),
   stats |-> f.doc.stats]

\* the properties of the state load() leaves undefined: {...parsed} copies
\* what the document has, only taskHistory gets a default
UndefinedAfterLoad(f) == f.lacks \ {"taskHistory"}


(***************************************************************************)
(* Collaborators (tekton/updater.ts, llm/propose.ts)                       *)
(***************************************************************************)
\* Classes of document text.  "+nad" marks the secondaryNetworkNAD param.
Docs == {None, "malformed", "invalid", "valid", "valid+nad"}

\* YAML.parse throws on it
Unparsable(doc) == doc = "malformed"

\* the task schema accepts it
SchemaValid(doc) == doc \in {"valid", "valid+nad", "llm-valid"}

HasNadParam(doc) == doc \in {"valid+nad", "invalid+nad"}

WithNadParam(doc) == IF doc = "valid" THEN "valid+nad" ELSE "invalid+nad"

\* validateTaskYaml throws
ValidateThrows(doc) == Unparsable(doc) \/ ~SchemaValid(doc)

Change(mentions, desc, areas) == [mentions |-> mentions, desc |-> desc, areas |-> areas]

\* description.length > 100 / > 200
DescOver100(c) == c.desc \in {"long", "vlong"}

DescOver200(c) == c.desc = "vlong"

Mentions(c) == c.mentions

\* applyDeterministicRules, for change sets that can only match the first
\* rule: the call throws, or yields at most one rule result
ApplyRules(doc, changes) ==
  IF Unparsable(doc) THEN [throws |-> TRUE, changed |-> FALSE, yaml |-> None]
  ELSE IF ~(\E i \in 1..Len(changes) : Mentions(changes[i])) THEN [throws |-> FALSE, changed |-> FALSE, yaml |-> None]
  ELSE IF HasNadParam(doc) THEN [throws |-> FALSE, changed |-> FALSE, yaml |-> None]
  ELSE [throws |-> FALSE, changed |-> TRUE, yaml |-> WithNadParam(doc)]

\* rules.reverse().find(r => r.yaml)?.yaml || taskYaml
Latest(rules, taskYaml) == IF rules.yaml # None THEN rules.yaml ELSE taskYaml

\* What the proposer does in this run: no backend configured (returns its
\* input), the call fails, or the backend answers with a valid, an invalid
\* or an empty document, or with text YAML.parse rejects
LLMOutcomes == {"offline", "fails", "llm-valid", "llm-invalid", "empty", "unparsable"}

ProposeThrows(how) == how \in {"fails", "unparsable"}

\* proposal.updatedTaskYAML
Proposed(how, latest) ==
  CASE how = "offline" -> latest
    [] how = "empty" -> None
    [] OTHER -> how

\* mergeYAMLs(preferred, fallback)
mergeYAMLs(preferred, fallback) == IF preferred # None THEN preferred ELSE fallback

(***************************************************************************)
(* Decision Engine (AgentCore)                                             *)
(***************************************************************************)
AgentTask(id, type, taskYaml, changes) ==
  [id |-> id, type |-> type, taskYaml |-> taskYaml, changes |-> changes]

NoTask == AgentTask(None, None, None, NoChanges)

AreaWeight(c) ==
  (IF "serviceAccount" \in c.areas THEN 3 ELSE 0)
  + (IF "security" \in c.areas THEN 4 ELSE 0)
  + (IF "network" \in c.areas THEN 2 ELSE 0)
  + (IF DescOver200(c) THEN 2 ELSE 0)

RECURSIVE SumWeights(_)
SumWeights(changes) ==
  IF changes = <<>> THEN 0 ELSE AreaWeight(Head(changes)) + SumWeights(Tail(changes))

\* AgentCore.calculateImpactScore, in tenths
ScoreUnclamped(changes) ==
  IF ~changes.present THEN 0 ELSE SumWeights(changes.list)
calculateImpactScore(changes) ==
  IF ~changes.present THEN 0 ELSE Min(SumWeights(changes.list), 10)

MissingData == "Missing required data (taskYaml or changes)"
TooManyAttempts == "Too many failed attempts, human intervention needed"

\* AgentCore.reasonUpdateTask throws when the rule applier throws
ReasonThrows(t) ==
  /\ t.type = "update-task"
  /\ t.taskYaml # None
  /\ t.changes.present
  /\ ApplyRules(t.taskYaml, t.changes.list).throws

reasonUpdateTask(previousAttempts, t) ==
  IF t.taskYaml = None \/ ~t.changes.present
  THEN AgentDecision("skip", MissingData, 10, TRUE, -1, -1)
  ELSE LET rules == ApplyRules(t.taskYaml, t.changes.list)
           hasRuleChanges == rules.changed
           needsLLM == ~hasRuleChanges \/ (\E i \in 1..Len(t.changes.list) : DescOver100(t.changes.list[i]))
       IN IF Len(previousAttempts) > RetryCeiling
          THEN AgentDecision("skip", TooManyAttempts, 10, TRUE, Len(previousAttempts), -1)
          ELSE AgentDecision(IF needsLLM THEN "propose-with-llm" ELSE "apply-rules-only",
                             IF needsLLM THEN "Changes are complex" ELSE "Simple changes detected",
                             IF hasRuleChanges THEN 8 ELSE 5, FALSE, -1, -1)

reasonMonitorChanges(t) ==
  AgentDecision("check-changes", "Monitoring for new Jumpstarter changes", 10, FALSE, -1, -1)

\* Number.prototype.toFixed(2) of a score given in tenths
ToFixed2(tenths) ==
  LET Digit(d) == SubSeq("0123456789", d + 1, d + 1)
      units == tenths \div 10
  IN (IF units < 10 THEN Digit(units) ELSE Digit((units \div 10) % 10) \o Digit(units % 10))
     \o "." \o Digit(tenths % 10) \o "0"

reasonAnalyzeImpactAtLimit(t) ==
  LET impactScore == calculateImpactScore(t.changes) IN
  AgentDecision(IF impactScore >= ReviewLimit THEN "high-impact-review" ELSE "auto-apply",
                "Impact score: " \o ToFixed2(impactScore) \o ". "
                  \o (IF impactScore >= ReviewLimit
                      THEN "High impact detected, requesting review"
                      ELSE "Low impact, safe to auto-apply"),
                9, FALSE, -1, impactScore)
reasonAnalyzeImpact(t) ==
  LET impactScore == calculateImpactScore(t.changes) IN
  AgentDecision(IF impactScore > ReviewLimit THEN "high-impact-review" ELSE "auto-apply",
                "Impact score: " \o ToFixed2(impactScore) \o ". "
                  \o (IF impactScore > ReviewLimit
                      THEN "High impact detected, requesting review"
                      ELSE "Low impact, safe to auto-apply"),
                9, FALSE, -1, impactScore)

\* AgentCore.reason
reasonUnknownNotFinal(obs, t) ==
  CASE t.type = "update-task" -> reasonUpdateTask(obs.previousAttempts, t)
    [] t.type = "monitor-changes" -> reasonMonitorChanges(t)
    [] t.type = "analyze-impact" -> reasonAnalyzeImpact(t)
    [] OTHER -> AgentDecision("skip", "Unknown task type", 0, FALSE, -1, -1)
reason(obs, t) ==
  CASE t.type = "update-task" -> reasonUpdateTask(obs.previousAttempts, t)
    [] t.type = "monitor-changes" -> reasonMonitorChanges(t)
    [] t.type = "analyze-impact" -> reasonAnalyzeImpact(t)
    [] OTHER -> AgentDecision("skip", "Unknown task type", 0, TRUE, -1, -1)

ErrorResult(message) == ExecResult(FALSE, message, None, FALSE, FALSE)

executeProposeWithLLM(t, how) ==
  IF t.taskYaml = None \/ ~t.changes.present THEN ErrorResult("Missing taskYaml or changes")
  ELSE LET rules == ApplyRules(t.taskYaml, t.changes.list) IN
       IF rules.throws THEN ErrorResult("YAML parse error")
       ELSE LET latest == Latest(rules, t.taskYaml) IN
            IF ProposeThrows(how) THEN ErrorResult("LLM call failed")
            ELSE LET merged == mergeYAMLs(Proposed(how, latest), latest) IN
                 IF ValidateThrows(merged)
                 THEN ErrorResult("Tekton Task schema validation failed")
                 ELSE ExecResult(TRUE, None, merged, FALSE, FALSE)

executeApplyRulesUnvalidated(t) ==
  IF t.taskYaml = None \/ ~t.changes.present THEN ErrorResult("Missing taskYaml or changes")
  ELSE LET rules == ApplyRules(t.taskYaml, t.changes.list) IN
       IF rules.throws THEN ErrorResult("YAML parse error")
       ELSE ExecResult(TRUE, None, Latest(rules, t.taskYaml), FALSE, FALSE)
executeApplyRules(t) ==
  IF t.taskYaml = None \/ ~t.changes.present THEN ErrorResult("Missing taskYaml or changes")
  ELSE LET rules == ApplyRules(t.taskYaml, t.changes.list) IN
       IF rules.throws THEN ErrorResult("YAML parse error")
       ELSE LET updated == Latest(rules, t.taskYaml) IN
            IF ValidateThrows(updated)
            THEN ErrorResult("Tekton Task schema validation failed")
            ELSE ExecResult(TRUE, None, updated, FALSE, FALSE)

\* AgentCore.execute: every throw of a collaborator becomes {error}
executeReviewProposes(d, t, how) ==
  CASE d.action = "propose-with-llm" -> executeProposeWithLLM(t, how)
    [] d.action = "apply-rules-only" -> executeApplyRules(t)
    [] d.action = "check-changes" -> ExecResult(TRUE, None, None, FALSE, FALSE)
    [] d.action = "high-impact-review" ->
         [executeProposeWithLLM(t, how) EXCEPT !.requiresReview = TRUE,
                                               !.impactScore = d.impactScore,
                                               !.changes = t.changes]
    [] d.action = "auto-apply" -> executeProposeWithLLM(t, how)
    [] d.action = "skip" ->
         [ExecResult(FALSE, None, None, TRUE, FALSE) EXCEPT !.reason = d.reasoning]
    [] OTHER -> ErrorResult("Unknown action")
execute(d, t, how) ==
  CASE d.action = "propose-with-llm" -> executeProposeWithLLM(t, how)
    [] d.action = "apply-rules-only" -> executeApplyRules(t)
    [] d.action = "check-changes" -> ExecResult(TRUE, None, None, FALSE, FALSE)
    [] d.action = "high-impact-review" ->
         [ExecResult(TRUE, None, None, FALSE, TRUE) EXCEPT !.impactScore = d.impactScore,
                                                           !.changes = t.changes]
    [] d.action = "auto-apply" -> executeProposeWithLLM(t, how)
    [] d.action = "skip" ->
         [ExecResult(FALSE, None, None, TRUE, FALSE) EXCEPT !.reason = d.reasoning]
    [] OTHER -> ErrorResult("Unknown action")

\* AgentCore.isTaskComplete: history.some(h => h.result?.success)
isTaskComplete(th, id) ==
  LET history == getTaskHistory(th, id) IN
  \E i \in 1..Len(history) : history[i].result.success

Observation(mem, th, t) ==
  [memory |-> getRecentMemories(mem, RecentCount),
   previousAttempts |-> getTaskHistory(th, t.id)]

NoObservation == [memory |-> <<>>, previousAttempts |-> <<>>]

(***************************************************************************)
(* Inputs                                                                  *)
(***************************************************************************)
NetworkChange == Change(TRUE, "short", {"network"})
PlainChange == Change(FALSE, "short", {})
LongChange == Change(TRUE, "long", {})
SecurityChange == Change(FALSE, "vlong", {"security", "serviceAccount"})

ChangeSets == {NoChanges, Changes(<<>>), Changes(<<NetworkChange>>),
               Changes(<<PlainChange>>), Changes(<<LongChange>>),
               Changes(<<SecurityChange>>)}

TaskTypes == {"update-task", "monitor-changes", "analyze-impact", "batch-update"}

Tasks ==
  {AgentTask(id, type, doc, ch) :
     id \in TaskIds, type \in {"update-task", "analyze-impact"}, doc \in Docs, ch \in ChangeSets}
  \cup {AgentTask(id, type, None, NoChanges) :
     id \in TaskIds, type \in {"monitor-changes", "batch-update"}}

\* update tasks on one id whose payload is complete
UpdateTasks ==
  {AgentTask("task-a", "update-task", doc, ch) :
     doc \in {"malformed", "invalid", "valid"},
     ch \in {Changes(<<NetworkChange>>), Changes(<<PlainChange>>)}}

\* records a caller of the State Store can hand in: a successful update, a
\* failed one and a skip, as updateState builds them
OkRecord ==
  AgentMemory(AgentDecision("apply-rules-only", "Simple changes detected", 8, FALSE, -1, -1),
              ExecResult(TRUE, None, "valid+nad", FALSE, FALSE))
FailRecord ==
  AgentMemory(AgentDecision("propose-with-llm", "Changes are complex", 5, FALSE, -1, -1),
              ErrorResult("LLM call failed"))
SkipRecord ==
  AgentMemory(AgentDecision("skip", MissingData, 10, TRUE, -1, -1),
              [ExecResult(FALSE, None, None, TRUE, FALSE) EXCEPT !.reason = MissingData])

SampleRecords == {OkRecord, FailRecord, SkipRecord}

\* the tasks of the single run whose loop is followed to its end
LiveTasks ==
  {t \in Tasks :
     /\ t.id = "task-a"
     /\ t.taskYaml \in {None, "malformed", "valid"}
     /\ t.changes \in {NoChanges, Changes(<<NetworkChange>>), Changes(<<SecurityChange>>)}}


(***************************************************************************)
(* Orchestrator (AgentOrchestrator): configuration and data                *)
(***************************************************************************)
\* a configuration key the caller did not give (or gave as undefined)
NotConfigured == -1

OrchConfig(maxRetries, autoApplyThreshold) ==
  [maxRetries |-> maxRetries, autoApplyThreshold |-> autoApplyThreshold,
   maxMemories |-> NotConfigured]

\* {maxRetries: 3, ...config} read as this.config.maxRetries || 3
maxRetriesOf(cfg) ==
  IF cfg.maxRetries = NotConfigured \/ cfg.maxRetries = 0 THEN DefaultMaxRetries
  ELSE cfg.maxRetries

\* what analyzeImpactWorkflow returns
Impact(impactScore, requiresReview, recommendation) ==
  [impactScore |-> impactScore, requiresReview |-> requiresReview,
   recommendation |-> recommendation]

NoImpact == Impact(-1, FALSE, None)

\* A workflow call: its arguments, where it stands, and what it returned or
\* raised.  output is the content of the file at outputPath.
NoWorkflow ==
  [name |-> None, phase |-> "idle", doc |-> None, changes |-> NoChanges,
   outputPath |-> FALSE, docs |-> <<>>, results |-> <<>>, counts |-> [total |-> 0, successful |-> 0, failed |-> 0],
   impact |-> NoImpact, applying |-> FALSE, applied |-> FALSE, outcome |-> None, value |-> None,
   message |-> None, output |-> None]

\* a queued task: the AgentTask, task.priority and task.data._retries; seq
\* numbers the addTask calls
QueueEntry(t, priority, retries, seq) ==
  [task |-> t, priority |-> priority, retries |-> retries, seq |-> seq]

NoEntry == QueueEntry(NoTask, 0, 0, 0)

(***************************************************************************)
(* Initial states                                                          *)
(***************************************************************************)
\* new StateManager(dir, config) with nothing persisted yet, and
\* new AgentOrchestrator(config)
InitAll(cfgs, orchConfigs) ==
  /\ config \in cfgs
  /\ memories = <<>>
  /\ taskHistory = <<>>
  /\ stats = EmptyStats
  /\ file = NoFile
  /\ running = FALSE
  /\ pc = "idle"
  /\ task = NoTask
  /\ observation = NoObservation
  /\ decision = NoDecision
  /\ result = NoResult
  /\ outcome = None
  /\ lastOp = "new"
  /\ inserted = <<>>
  /\ failedRuns = [id \in TaskIds \cup {"workflow-propose", "workflow-analyze", "batch"} |-> 0]
  /\ iterations = 0
  /\ runs = 0
  /\ apiCalls = 0
  /\ undefinedFields = {}
  /\ saved = [before |-> None, last |-> None]
  /\ orchConfig \in orchConfigs
  /\ orchRunning = FALSE
  /\ taskQueue = <<>>
  /\ wf = NoWorkflow
  \* the queued task being executed, how often each was executed, which
  \* were dropped
  /\ qlog = [current |-> NoEntry, executions |-> <<>>, dropped |-> {}]

\* an orchestrator constructed without a config
InitWith(cfgs) == InitAll(cfgs, {OrchConfig(NotConfigured, NotConfigured)})

\* new AgentCore(stateDir): its StateManager gets no config
Init == InitWith({0})

\* a StateManager constructed by a caller, with or without a cap
InitStore == InitWith(0..MaxCap)

(***************************************************************************)
(* State Store operations, called on a store no run is using               *)
(***************************************************************************)
ApiCall(op) ==
  /\ pc = "idle"
  /\ apiCalls < MaxApiCalls
  /\ apiCalls' = apiCalls + 1
  /\ lastOp' = op
  /\ UNCHANGED <<orchVars, config, coreVars, failedRuns, iterations, runs>>

\* this.state.memories.push throws a TypeError when memories is undefined
addMemory(memory) ==
  /\ ApiCall("addMemory")
  /\ IF "memories" \in undefinedFields
     THEN UNCHANGED <<memories, inserted>>
     ELSE /\ memories' = AddMemoryResult(memories, memory, config)
          /\ inserted' = Append(inserted, memory)
  /\ UNCHANGED <<taskHistory, stats, undefinedFields, file, saved>>

\* the history is pushed before this.state.stats is touched
addTaskHistory(taskId, memory) ==
  /\ ApiCall("addTaskHistory")
  /\ taskHistory' = PushHistory(taskHistory, taskId, memory)
  /\ stats' = IF "stats" \in undefinedFields THEN stats
               ELSE UpdateStats(stats, taskHistory', memory)
  /\ UNCHANGED <<memories, undefinedFields, file, inserted, saved>>

save(how) ==
  /\ ApiCall("save")
  /\ file' = FileAfterSave(file, memories, taskHistory, stats, undefinedFields, how)
  /\ saved' = SavedAfter(saved, how)
  /\ UNCHANGED <<storeVars, undefinedFields, inserted>>

load ==
  /\ ApiCall("load")
  /\ IF Loadable(file)
     THEN /\ memories' = LoadedState(file).memories
          /\ taskHistory' = LoadedState(file).taskHistory
          /\ stats' = LoadedState(file).stats
          /\ undefinedFields' = UndefinedAfterLoad(file)
          /\ inserted' = LoadedState(file).memories
     ELSE UNCHANGED <<storeVars, undefinedFields, inserted>>
  /\ UNCHANGED <<file, saved>>

clear ==
  /\ ApiCall("clear")
  /\ memories' = <<>>
  /\ taskHistory' = <<>>
  /\ stats' = EmptyStats
  /\ undefinedFields' = {}
  /\ inserted' = <<>>
  /\ UNCHANGED <<file, saved>>

NextStore ==
  \/ \E m \in SampleRecords : addMemory(m)
  \/ \E id \in TaskIds, m \in SampleRecords : addTaskHistory(id, m)
  \/ \E how \in SaveOutcomes : save(how)
  \/ load
  \/ clear

StoreSpec == InitStore /\ [][NextStore]_vars

(***************************************************************************)
(* The State Store next to a state file it did not write itself            *)
(***************************************************************************)
\* the JSON object doc without the properties in lacking
Lacking(doc, lacking) ==
  Stringify([memories |-> IF "memories" \in lacking THEN <<>> ELSE doc.memories,
             taskHistory |-> IF "taskHistory" \in lacking THEN <<>> ELSE doc.taskHistory,
             stats |-> IF "stats" \in lacking THEN EmptyStats ELSE doc.stats],
            lacking)

\* files load() can meet: text that is not JSON, and JSON objects lacking
\* some or all of memories, taskHistory, stats (of a document as save()
\* writes it for a store with one record)
ForeignFiles ==
  LET th == PushHistory(<<>>, "task-a", OkRecord)
      doc == Serialize(<<OkRecord>>, th, UpdateStats(EmptyStats, th, OkRecord))
  IN {PartialFile} \cup
     {Lacking(doc, lacking) :
        lacking \in (SUBSET {"memories", "taskHistory", "stats"}) \ {{}}}

\* what load() treats as unreadable or malformed input
Malformed(f) == f.kind = "partial" \/ (f.kind = "json" /\ f.lacks # {})

\* something else than save() replaces the state file
FileReplaced(f) ==
  /\ pc = "idle"
  /\ apiCalls < MaxApiCalls
  /\ apiCalls' = apiCalls + 1
  /\ file' = f
  /\ lastOp' = "replaced"
  /\ UNCHANGED <<orchVars, config, storeVars, undefinedFields, coreVars,
                 ghostVars, saved>>

NextLoad ==
  \/ \E m \in {OkRecord, FailRecord} : addMemory(m)
  \/ \E m \in {OkRecord, FailRecord} : addTaskHistory("task-a", m)
  \/ save("ok")
  \/ load
  \/ clear
  \/ \E f \in ForeignFiles : FileReplaced(f)

LoadSpec == Init /\ [][NextLoad]_vars

(***************************************************************************)
(* AgentCore.run, one action per step of the loop                          *)
(***************************************************************************)
\* run(t) is called: this.running = true.  Nothing in run() tells whether
\* another call is in progress; that is up to the caller.
BeginRun(t) ==
  /\ task' = t
  /\ running' = TRUE
  /\ pc' = "loop"
  /\ outcome' = None
  /\ iterations' = 0
  /\ runs' = runs + 1
  /\ lastOp' = "run"
  /\ UNCHANGED <<undefinedFields, saved, config, storeVars, file, observation,
                 decision, result, inserted, failedRuns, apiCalls>>

\* a caller of the engine runs one of tasks, after the run before it is over
StartRun(tasks, maxRuns) ==
  /\ pc = "idle"
  /\ runs < maxRuns
  /\ \E t \in tasks : BeginRun(t)
  /\ UNCHANGED orchVars

\* the loop test holds; observe
Observe(bounded) ==
  /\ pc = "loop"
  /\ running /\ ~isTaskComplete(taskHistory, task.id)
  /\ bounded => iterations < MaxIterations
  /\ observation' = Observation(memories, taskHistory, task)
  /\ pc' = "observed"
  /\ lastOp' = "observe"
  /\ UNCHANGED <<orchVars, undefinedFields, saved, config, storeVars, file, running, task, decision, result,
                 outcome, ghostVars, apiCalls>>

\* consecutive failing runs of update tasks, per task id
FailedRunsAfter(failed) ==
  IF task.type # "update-task" THEN failedRuns
  ELSE IF failed THEN [failedRuns EXCEPT ![task.id] = Min(@ + 1, MaxRetryRuns)]
  ELSE [failedRuns EXCEPT ![task.id] = 0]

\* reason() throws: run() rethrows to its caller
ReasonThrow ==
  /\ pc = "observed"
  /\ ReasonThrows(task)
  /\ pc' = "idle"
  /\ outcome' = "threw"
  /\ failedRuns' = FailedRunsAfter(TRUE)
  /\ task' = NoTask
  /\ observation' = NoObservation
  /\ decision' = NoDecision
  /\ result' = NoResult
  /\ lastOp' = "throw"
  /\ UNCHANGED <<orchVars, undefinedFields, saved, config, storeVars, file, running, inserted, iterations, runs, apiCalls>>

Reason ==
  /\ pc = "observed"
  /\ ~ReasonThrows(task)
  /\ decision' = reason(observation, task)
  /\ pc' = "reasoned"
  /\ lastOp' = "reason"
  /\ UNCHANGED <<orchVars, undefinedFields, saved, config, storeVars, file, running, task, observation, result,
                 outcome, ghostVars, apiCalls>>

\* the proposer's behaviour is an input of each Execute step
Execute(llms) ==
  /\ pc = "reasoned"
  /\ \E how \in llms : result' = execute(decision, task, how)
  /\ pc' = "executed"
  /\ lastOp' = "execute"
  /\ UNCHANGED <<orchVars, undefinedFields, saved, config, storeVars, file, running, task, observation, decision,
                 outcome, ghostVars, apiCalls>>

\* the store after AgentCore.updateState has recorded the memory
Recorded(mem, th, st, memory, id, cfg) ==
  [memories |-> AddMemoryResult(mem, memory, cfg), taskHistory |-> th, stats |-> st]

\* updateState: addMemory, then save
UpdateState(hows) ==
  /\ pc = "executed"
  /\ LET memory == AgentMemory(decision, result)
         after == Recorded(memories, taskHistory, stats, memory, task.id, config)
     IN /\ memories' = after.memories
        /\ taskHistory' = after.taskHistory
        /\ stats' = after.stats
        /\ \E how \in hows :
              /\ file' = FileAfterSave(file, after.memories, after.taskHistory, after.stats,
                                       undefinedFields, how)
              /\ saved' = SavedAfter(saved, how)
  /\ iterations' = Min(iterations + 1, MaxIterations)
  /\ pc' = "updated"
  /\ lastOp' = "updateState"
  /\ UNCHANGED <<orchVars, undefinedFields, config, running, task, observation,
                 decision, result, outcome, inserted, failedRuns, runs, apiCalls>>

\* if (decision.final || result.error) this.running = false
CheckContinue ==
  /\ pc = "updated"
  /\ running' = IF decision.final \/ result.error # None THEN FALSE ELSE running
  /\ pc' = "loop"
  /\ lastOp' = "check"
  /\ UNCHANGED <<orchVars, undefinedFields, saved, config, storeVars, file, task, observation, decision, result,
                 outcome, ghostVars, apiCalls>>

\* the loop test fails: run() returns
Return ==
  /\ pc = "loop"
  /\ ~(running /\ ~isTaskComplete(taskHistory, task.id))
  /\ pc' = "idle"
  /\ outcome' = "returned"
  /\ failedRuns' = IF iterations = 0 THEN failedRuns
                   ELSE FailedRunsAfter(result.error # None)
  /\ task' = NoTask
  /\ observation' = NoObservation
  /\ decision' = NoDecision
  /\ result' = NoResult
  /\ lastOp' = "return"
  /\ UNCHANGED <<orchVars, undefinedFields, saved, config, storeVars, file, running, inserted, iterations, runs, apiCalls>>

RunStep(bounded, llms, hows) ==
  \/ Observe(bounded)
  \/ ReasonThrow
  \/ Reason
  \/ Execute(llms)
  \/ UpdateState(hows)
  \/ CheckContinue
  \/ Return

Next ==
  \/ StartRun(Tasks, MaxRuns)
  \/ RunStep(TRUE, LLMOutcomes, SaveOutcomes)

Spec == Init /\ [][Next]_vars

\* repeated update runs on one task id
NextRetry ==
  \/ StartRun(UpdateTasks, MaxRetryRuns)
  \/ RunStep(TRUE, {"offline", "fails"}, {"ok"})

RetrySpec == Init /\ [][NextRetry]_vars

\* one run, its loop not cut short; the steps of a run that has been called
\* are taken (no step of the loop waits for anything but its collaborators)
NextLive ==
  \/ StartRun(LiveTasks, 1)
  \/ RunStep(FALSE, {"offline", "fails"}, {"ok"})

LiveSpec == Init /\ [][NextLive]_vars /\ WF_vars(RunStep(FALSE, {"offline", "fails"}, {"ok"}))

\* runs whose saves can fail
NextSave ==
  \/ StartRun(LiveTasks, MaxRuns)
  \/ RunStep(TRUE, {"offline", "fails"}, SaveOutcomes)

SaveSpec == Init /\ [][NextSave]_vars

\* one run on one task id, of a task of a declared kind or of a kind that
\* is not declared, the proposer answering in every way it can
NextValidation ==
  \/ StartRun({t \in Tasks : t.id = "task-a"}
                \cup {AgentTask("task-a", "undeclared", None, NoChanges)}, 1)
  \/ RunStep(TRUE, LLMOutcomes, {"ok"})

ValidationSpec == Init /\ [][NextValidation]_vars

(***************************************************************************)
(* Impact analysis runs: the scorer on change sets of every size           *)
(***************************************************************************)
\* absent, or up to MaxChanges changes: unflagged, flagged with one area
\* (the areas the scorer reads and areas it does not), or flagged as
\* security and serviceAccount with a description over 200 characters
ImpactChangeSets ==
  {NoChanges} \cup
  {Changes(list) :
     list \in SeqsUpTo({PlainChange, NetworkChange, SecurityChange}
                        \cup {Change(FALSE, "short", {area}) :
                                area \in {"storage", "resources", "rbac", "serviceAccount"}},
                      MaxChanges)}

ImpactTasks ==
  {AgentTask("task-a", "analyze-impact", doc, ch) :
     doc \in {None, "valid"}, ch \in ImpactChangeSets}

\* reasonAnalyzeImpact never throws, so the run has no throwing step
NextImpact ==
  \/ StartRun(ImpactTasks, 1)
  \/ Observe(TRUE)
  \/ Reason
  \/ Execute({"offline"})
  \/ UpdateState({"ok"})
  \/ CheckContinue
  \/ Return

ImpactSpec == Init /\ [][NextImpact]_vars

(***************************************************************************)
(* AgentOrchestrator: the workflows                                        *)
(***************************************************************************)
\* the text of the task file: empty, or one of the document classes
WorkflowDocs == {None, "malformed", "invalid", "valid"}

\* loadChangesFromFile always returns an array
WorkflowChanges ==
  {Changes(<<>>), Changes(<<NetworkChange>>), Changes(<<PlainChange>>),
   Changes(<<SecurityChange>>)}

\* the task a workflow builds; the clock reading in its id is left out
WorkflowTask(id, doc, changes) ==
  AgentTask(id, IF id = "workflow-analyze" THEN "analyze-impact" ELSE "update-task",
            doc, changes)

\* the object analyzeImpactWorkflow builds from the last memory
ImpactNeverFlagged(mem) ==
  IF mem = <<>> THEN Impact(0, FALSE, None)
  ELSE Impact(IF Last(mem).decision.impactScore = -1 THEN 0
              ELSE Last(mem).decision.impactScore,
              FALSE,
              Last(mem).decision.action)
ImpactWithoutScore(mem) ==
  IF mem = <<>> THEN Impact(0, FALSE, None)
  ELSE Impact(0, Last(mem).result.requiresReview, Last(mem).decision.action)
ImpactOf(mem) ==
  IF mem = <<>> THEN Impact(0, FALSE, None)
  ELSE Impact(IF Last(mem).decision.impactScore = -1 THEN 0
              ELSE Last(mem).decision.impactScore,
              Last(mem).result.requiresReview,
              Last(mem).decision.action)

\* impact.requiresReview || impact.impactScore > (autoApplyThreshold || 0.7),
\* in tenths; the constructor's {autoApplyThreshold: 0.7, ...config} gives the
\* threshold when no key is configured
RequiresManualReview(impact, cfg) ==
  \/ impact.requiresReview
  \/ impact.impactScore >
       (IF cfg.autoApplyThreshold = NotConfigured \/ cfg.autoApplyThreshold = 0
        THEN DefaultAutoApplyThreshold
        ELSE cfg.autoApplyThreshold)

\* the message of an error run() rethrows
RunError == "error raised by run"

\* the workflow is over: it returned value or raised message
Returned(w, value) == [w EXCEPT !.phase = "done", !.outcome = "returned", !.value = value]

Raised(w, message) == [w EXCEPT !.phase = "done", !.outcome = "raised", !.message = message]

\* the workflow leaves the engine as it is
EngineUntouched ==
  UNCHANGED <<config, storeVars, undefinedFields, file, coreVars, lastOp,
              ghostVars, apiCalls, saved, orchConfig, orchRunning, taskQueue, qlog>>

\* the workflow calls agent.run(t)
RunCalledThroughQueue(t) ==
  /\ BeginRun(t)
  /\ taskQueue' = Append(taskQueue, QueueEntry(t, 0, 0, 0))
  /\ UNCHANGED <<orchConfig, orchRunning, qlog>>
RunCalled(t) == BeginRun(t) /\ UNCHANGED <<orchConfig, orchRunning, taskQueue, qlog>>

proposeUpdateWorkflow(doc, changes, outputPath) ==
  /\ wf = NoWorkflow
  /\ wf' = [wf EXCEPT !.name = "propose", !.phase = "proposing", !.doc = doc,
                      !.changes = changes, !.outputPath = outputPath]
  /\ RunCalled(WorkflowTask("workflow-propose", doc, changes))

analyzeImpactWorkflow(doc, changes) ==
  /\ wf = NoWorkflow
  /\ wf' = [wf EXCEPT !.name = "analyze", !.phase = "analyzing", !.doc = doc,
                      !.changes = changes]
  /\ RunCalled(WorkflowTask("workflow-analyze", doc, changes))

\* autoUpdateWorkflow starts with analyzeImpactWorkflow
autoUpdateWorkflow(doc, changes) ==
  /\ wf = NoWorkflow
  /\ wf' = [wf EXCEPT !.name = "auto", !.phase = "analyzing", !.doc = doc,
                      !.changes = changes, !.outputPath = TRUE]
  /\ RunCalled(WorkflowTask("workflow-analyze", doc, changes))

RunReturned == pc = "idle" /\ outcome = "returned"

RunThrew == pc = "idle" /\ outcome = "threw"

\* await this.agent.run(task) is over: the run returned or threw
RunNotAwaited == TRUE
RunSettled == RunReturned \/ RunThrew

\* analyzeImpactWorkflow returns to a caller other than autoUpdateWorkflow
AnalyzeReturns ==
  /\ wf.name = "analyze" /\ wf.phase = "analyzing"
  /\ RunReturned
  /\ wf' = Returned([wf EXCEPT !.impact = ImpactOf(memories)], None)
  /\ EngineUntouched

\* autoUpdateWorkflow: return {autoApplied: false, reason, impact}
AutoDeclines ==
  /\ wf.name = "auto" /\ wf.phase = "analyzing"
  /\ RunReturned
  /\ RequiresManualReview(ImpactOf(memories), orchConfig)
  /\ wf' = Returned([wf EXCEPT !.impact = ImpactOf(memories)], None)
  /\ EngineUntouched

\* autoUpdateWorkflow: calls proposeUpdateWorkflow with the output path
AutoApplies ==
  /\ wf.name = "auto" /\ wf.phase = "analyzing"
  /\ RunReturned
  /\ ~RequiresManualReview(ImpactOf(memories), orchConfig)
  /\ wf' = [wf EXCEPT !.impact = ImpactOf(memories), !.phase = "proposing",
                      !.applying = TRUE]
  /\ RunCalled(WorkflowTask("workflow-propose", wf.doc, wf.changes))

\* proposeUpdateWorkflow after the run: throw on a failing last memory,
\* else write (fs.writeFileSync rejects undefined data) and return
ProposeResult(w, mem) ==
  IF mem = <<>> THEN Raised(w, None)
  ELSE IF ~Last(mem).success THEN Raised(w, Last(mem).result.error)
  ELSE LET updatedYaml == Last(mem).result.updatedYaml IN
       IF ~w.outputPath THEN Returned(w, updatedYaml)
       ELSE IF updatedYaml = None THEN Raised(w, "ERR_INVALID_ARG_TYPE")
       ELSE Returned([w EXCEPT !.output = updatedYaml, !.applied = (w.name = "auto")],
                     updatedYaml)

ProposeReturns ==
  /\ wf.phase = "proposing"
  /\ RunReturned
  /\ wf' = ProposeResult(wf, memories)
  /\ EngineUntouched

\* the error run() rethrows leaves the workflow that awaits it
WorkflowRethrows ==
  /\ wf.phase \in {"analyzing", "proposing"}
  /\ RunThrew
  /\ wf' = Raised(wf, RunError)
  /\ EngineUntouched

(***************************************************************************)
(* batchUpdateWorkflow                                                     *)
(***************************************************************************)
BatchResult(success, error, outputFile) ==
  [success |-> success, error |-> error, outputFile |-> outputFile]

\* the result pushed for one document; wrote says whether mkdirSync and
\* writeFileSync of the output went through
BatchDocResult(threw, mem, wrote) ==
  IF threw THEN BatchResult(FALSE, RunError, None)
  ELSE IF mem # <<>> /\ Last(mem).success /\ Last(mem).result.updatedYaml # None
  THEN IF wrote THEN BatchResult(TRUE, None, Last(mem).result.updatedYaml)
       ELSE BatchResult(FALSE, "write failed", None)
  ELSE BatchResult(FALSE,
                   IF mem # <<>> /\ Last(mem).result.error # None
                   THEN Last(mem).result.error ELSE "Unknown error",
                   None)

SuccessCount(results) == Cardinality({i \in 1..Len(results) : results[i].success})

\* {total, successful, failed}
BatchCountsRecordedOnly(docs, results) ==
  [total |-> Len(docs),
   successful |-> SuccessCount(results),
   failed |-> Cardinality({i \in 1..Len(results) :
                             ~results[i].success /\ results[i].error # RunError})]
BatchCounts(docs, results) ==
  [total |-> Len(docs),
   successful |-> SuccessCount(results),
   failed |-> Len(docs) - SuccessCount(results)]

\* the call with an empty directory throws before any document is read
batchUpdateWorkflow(docs, changes) ==
  /\ wf = NoWorkflow
  /\ IF docs = <<>>
     THEN /\ wf' = Raised([wf EXCEPT !.name = "batch"], "No YAML files found")
          /\ EngineUntouched
     ELSE /\ wf' = [wf EXCEPT !.name = "batch", !.phase = "batching", !.docs = docs,
                              !.changes = changes]
          /\ RunCalled(WorkflowTask("batch", docs[1], changes))

\* one document is done and the loop takes the next one
BatchNextDocument ==
  /\ wf.phase = "batching"
  /\ RunSettled
  /\ Len(wf.results) + 1 < Len(wf.docs)
  /\ \E wrote \in BOOLEAN :
        wf' = [wf EXCEPT !.results = Append(@, BatchDocResult(RunThrew, memories, wrote))]
  /\ RunCalled(WorkflowTask("batch", wf.docs[Len(wf.results) + 2], wf.changes))

\* the last document is done: the counts are returned
BatchReturns ==
  /\ wf.phase = "batching"
  /\ RunSettled
  /\ Len(wf.results) + 1 = Len(wf.docs)
  /\ \E wrote \in BOOLEAN :
        LET results == Append(wf.results, BatchDocResult(RunThrew, memories, wrote)) IN
        wf' = Returned([wf EXCEPT !.results = results,
                                  !.counts = BatchCounts(wf.docs, results)], None)
  /\ EngineUntouched

\* AgentOrchestrator.stop(), called while a step of the run is awaited or
\* while the run-loop sleeps
stopLoopOnly ==
  /\ \/ pc \in {"observed", "reasoned", "executed", "updated"} /\ running
     \/ pc = "idle" /\ orchRunning
  /\ orchRunning' = FALSE
  /\ lastOp' = "stop"
  /\ UNCHANGED <<config, storeVars, undefinedFields, file, coreVars, ghostVars,
                 apiCalls, saved, orchConfig, taskQueue, wf, qlog>>
stop ==
  /\ \/ pc \in {"observed", "reasoned", "executed", "updated"} /\ running
     \/ pc = "idle" /\ orchRunning
  /\ running' = FALSE
  /\ orchRunning' = FALSE
  /\ lastOp' = "stop"
  /\ UNCHANGED <<config, storeVars, undefinedFields, file, pc, task, observation,
                 decision, result, outcome, ghostVars, apiCalls, saved,
                 orchConfig, taskQueue, wf, qlog>>

NextWorkflow ==
  \/ \E doc \in WorkflowDocs, ch \in WorkflowChanges, out \in BOOLEAN :
        proposeUpdateWorkflow(doc, ch, out)
  \/ \E doc \in WorkflowDocs, ch \in WorkflowChanges : analyzeImpactWorkflow(doc, ch)
  \/ \E doc \in WorkflowDocs, ch \in WorkflowChanges : autoUpdateWorkflow(doc, ch)
  \/ AnalyzeReturns
  \/ AutoDeclines
  \/ AutoApplies
  \/ ProposeReturns
  \/ WorkflowRethrows
  \/ stop
  \/ RunStep(TRUE, {"offline", "fails"}, {"ok"})

\* the thresholds a caller configures: none, 0, 0.7 and 1.0
WorkflowSpec ==
  /\ InitAll({0}, {OrchConfig(NotConfigured, th) : th \in {NotConfigured, 0, 7, 10}})
  /\ [][NextWorkflow]_vars

NextBatch ==
  \/ \E docs \in SeqsUpTo({"malformed", "invalid", "valid"}, MaxDocs),
         ch \in {Changes(<<NetworkChange>>), Changes(<<PlainChange>>)} :
        batchUpdateWorkflow(docs, ch)
  \/ BatchNextDocument
  \/ BatchReturns
  \/ stop
  \/ RunStep(TRUE, {"offline", "fails"}, {"ok"})

BatchSpec == Init /\ [][NextBatch]_vars

(***************************************************************************)
(* AgentOrchestrator: the task queue and the run-loop                      *)
(***************************************************************************)
\* taskQueue.findIndex(t => (t.priority || 0) < priority), 0 for -1
FirstLowerOrEqual(queue, priority) ==
  IF \E i \in 1..Len(queue) : queue[i].priority <= priority
  THEN CHOOSE i \in 1..Len(queue) :
         /\ queue[i].priority <= priority
         /\ \A j \in 1..(i - 1) : queue[j].priority > priority
  ELSE 0
FirstLower(queue, priority) ==
  IF \E i \in 1..Len(queue) : queue[i].priority < priority
  THEN CHOOSE i \in 1..Len(queue) :
         /\ queue[i].priority < priority
         /\ \A j \in 1..(i - 1) : queue[j].priority >= priority
  ELSE 0

\* push when no element has a lower priority, else splice(insertIndex, 0, e)
InsertByPriority(queue, e) ==
  LET insertIndex == FirstLower(queue, e.priority) IN
  IF insertIndex = 0 THEN Append(queue, e)
  ELSE SubSeq(queue, 1, insertIndex - 1) \o <<e>> \o SubSeq(queue, insertIndex, Len(queue))

\* a task whose run throws each time, and one whose run returns at once
QueueTasks ==
  {AgentTask("task-a", "update-task", "malformed", Changes(<<PlainChange>>)),
   AgentTask("7", "batch-update", None, NoChanges)}

QueueUntouchedEngine ==
  UNCHANGED <<config, storeVars, undefinedFields, file, coreVars, ghostVars,
              apiCalls, saved, orchConfig, wf>>

\* start(): this.running = true, the loop begins
start ==
  /\ ~orchRunning
  /\ qlog.current = NoEntry
  /\ pc = "idle"
  /\ orchRunning' = TRUE
  /\ lastOp' = "start"
  /\ UNCHANGED <<taskQueue, qlog>>
  /\ QueueUntouchedEngine

addTask(t, priority) ==
  /\ Len(qlog.executions) < MaxTasks
  /\ taskQueue' = InsertByPriority(taskQueue,
                     QueueEntry(t, priority, 0, Len(qlog.executions) + 1))
  /\ qlog' = [qlog EXCEPT !.executions = Append(@, 0)]
  /\ lastOp' = "addTask"
  /\ UNCHANGED orchRunning
  /\ QueueUntouchedEngine

\* the loop takes the head of the queue: executeTask calls agent.run
Dequeue ==
  /\ orchRunning
  /\ qlog.current = NoEntry
  /\ taskQueue # <<>>
  /\ taskQueue' = Tail(taskQueue)
  /\ qlog' = [qlog EXCEPT !.current = Head(taskQueue),
                          !.executions[Head(taskQueue).seq] = @ + 1]
  /\ BeginRun(Head(taskQueue).task)
  /\ UNCHANGED <<orchConfig, orchRunning, wf>>

\* executeTask: the run returned
TaskCompleted ==
  /\ qlog.current # NoEntry
  /\ RunReturned
  /\ qlog' = [qlog EXCEPT !.current = NoEntry]
  /\ lastOp' = "completed"
  /\ UNCHANGED <<taskQueue, orchRunning>>
  /\ QueueUntouchedEngine

\* executeTask's catch: retries < (this.config.maxRetries || 3)
TaskRetried ==
  /\ qlog.current # NoEntry
  /\ RunThrew
  /\ qlog.current.retries + 1 < maxRetriesOf(orchConfig)
  /\ taskQueue' = Append(taskQueue, [qlog.current EXCEPT !.retries = @ + 1])
  /\ qlog' = [qlog EXCEPT !.current = NoEntry]
  /\ lastOp' = "retried"
  /\ UNCHANGED orchRunning
  /\ QueueUntouchedEngine

TaskDropped ==
  /\ qlog.current # NoEntry
  /\ RunThrew
  /\ ~(qlog.current.retries + 1 < maxRetriesOf(orchConfig))
  /\ qlog' = [qlog EXCEPT !.current = NoEntry, !.dropped = @ \cup {qlog.current.seq}]
  /\ lastOp' = "dropped"
  /\ UNCHANGED <<taskQueue, orchRunning>>
  /\ QueueUntouchedEngine

NextQueue ==
  \/ start
  \/ \E t \in QueueTasks, priority \in 0..MaxPriority : addTask(t, priority)
  \/ Dequeue
  \/ TaskCompleted
  \/ TaskRetried
  \/ TaskDropped
  \/ stop
  \/ RunStep(TRUE, {"offline"}, {"ok"})

\* maxRetries as a caller configures it: not at all, or 0..MaxConfiguredRetries
QueueSpec ==
  /\ InitAll({0}, {OrchConfig(r, NotConfigured) :
                     r \in {NotConfigured} \cup 0..MaxConfiguredRetries})
  /\ [][NextQueue]_vars

(***************************************************************************)
(* One orchestrator used for a batch and for the run-loop, one after the   *)
(* other: a caller awaits a workflow before it starts the run-loop and     *)
(* stops the run-loop before it calls a workflow                           *)
(***************************************************************************)
RunLoopOver == ~orchRunning /\ qlog.current = NoEntry

NextSequence ==
  \/ /\ RunLoopOver
     /\ \E docs \in SeqsUpTo({"malformed", "valid"}, 2) \ {<<>>} :
           batchUpdateWorkflow(docs, Changes(<<NetworkChange>>))
  \/ BatchNextDocument
  \/ BatchReturns
  \/ wf.phase \in {"idle", "done"} /\ start
  \/ Len(qlog.executions) < MaxQueued /\ \E t \in QueueTasks : addTask(t, 0)
  \/ Dequeue
  \/ TaskCompleted
  \/ TaskRetried
  \/ TaskDropped
  \/ stop
  \/ RunStep(TRUE, {"offline"}, {"ok"})

SequenceSpec == Init /\ [][NextSequence]_vars

\* the four workflows and the run-loop of one orchestrator, one after the
\* other, with up to MaxQueued tasks queued at any time
NextFrame ==
  \/ /\ RunLoopOver
     /\ \E doc \in {"malformed", "valid"},
           ch \in {Changes(<<NetworkChange>>), Changes(<<SecurityChange>>)} :
           \/ proposeUpdateWorkflow(doc, ch, TRUE)
           \/ analyzeImpactWorkflow(doc, ch)
           \/ autoUpdateWorkflow(doc, ch)
           \/ batchUpdateWorkflow(<<doc, "valid">>, ch)
  \/ AnalyzeReturns
  \/ AutoDeclines
  \/ AutoApplies
  \/ ProposeReturns
  \/ WorkflowRethrows
  \/ BatchNextDocument
  \/ BatchReturns
  \/ wf.phase \in {"idle", "done"} /\ start
  \/ Len(qlog.executions) < MaxQueued /\ \E t \in QueueTasks : addTask(t, 0)
  \/ Dequeue
  \/ TaskCompleted
  \/ TaskRetried
  \/ TaskDropped
  \/ stop
  \/ RunStep(TRUE, {"offline"}, {"ok"})

FrameSpec == Init /\ [][NextFrame]_vars

(***************************************************************************)
(* AgentMCPServer: the request handlers on one AgentCore                   *)
(***************************************************************************)
\* the task handleProposeUpdate builds; "task-a" stands for task-<Date.now()>
MCPTask(doc, changes) == AgentTask("task-a", "update-task", doc, changes)

\* the task of an agent/analyze_impact request whose change set goes to
\* review: its run calls no proposer
ReviewTask ==
  AgentTask("workflow-analyze", "analyze-impact", "valid", Changes(<<SecurityChange>>))

\* the record of the one iteration of a run on t that awaits no proposer
RecordOf(t, mem, th) ==
  LET d == reason(Observation(mem, th, t), t) IN AgentMemory(d, execute(d, t, "offline"))

\* the state files initialize() can find: one the engine wrote after an
\* analysis (a record, no task history) and one that also holds a successful
\* history entry under the id of the task to come
ServerFiles ==
  LET mem == <<RecordOf(ReviewTask, <<>>, <<>>)>>
      th == PushHistory(<<>>, "task-a", OkRecord)
  IN {JsonFile(Serialize(mem, <<>>, EmptyStats)),
      JsonFile(Serialize(mem, th, UpdateStats(EmptyStats, th, OkRecord)))}

\* server.initialize() is over
Initialized == lastOp \notin {"new", "replaced"}

handleProposeUpdate(doc, changes) ==
  /\ Initialized
  /\ pc = "idle"
  /\ wf = NoWorkflow
  /\ IF ~changes.present \/ changes.list = <<>>
     THEN /\ wf' = Raised([wf EXCEPT !.name = "mcp-propose"], "No changes provided")
          /\ EngineUntouched
     ELSE /\ wf' = [wf EXCEPT !.name = "mcp-propose", !.phase = "proposing",
                              !.doc = doc, !.changes = changes]
          /\ RunCalled(MCPTask(doc, changes))

\* the result handleProposeUpdate builds from the last memory:
\* updatedYaml || taskYaml, reasoning, success || false
ProposeUpdateResponse(w, mem) ==
  IF mem = <<>> THEN Returned(w, w.doc)
  ELSE Returned([w EXCEPT !.message = Last(mem).decision.reasoning,
                          !.applied = Last(mem).success],
                IF Last(mem).result.updatedYaml = None THEN w.doc
                ELSE Last(mem).result.updatedYaml)

ProposeUpdateResponds ==
  /\ wf.name = "mcp-propose" /\ wf.phase = "proposing"
  /\ RunReturned
  /\ wf' = ProposeUpdateResponse(wf, memories)
  /\ EngineUntouched

\* handle()'s catch turns the error run() rethrows into an error response
HandleCatches ==
  /\ wf.name = "mcp-propose" /\ wf.phase = "proposing"
  /\ RunThrew
  /\ wf' = Raised(wf, RunError)
  /\ EngineUntouched

\* the 'data' handler of startMCPServer does not wait for the request of an
\* earlier chunk: while execute awaits the proposer's HTTP call, an
\* agent/analyze_impact request is handled.  Its run awaits no I/O, so it is
\* over (record pushed and saved, running = false after the final decision,
\* response built) before the awaited call resumes.
AnalyzeMeanwhile ==
  /\ wf.name = "mcp-propose" /\ wf.impact = NoImpact
  /\ pc = "reasoned" /\ decision.action = "propose-with-llm"
  /\ LET mem == AddMemoryResult(memories, RecordOf(ReviewTask, memories, taskHistory),
                                config)
     IN /\ memories' = mem
        /\ file' = FileAfterSave(file, mem, taskHistory, stats, undefinedFields, "ok")
        /\ wf' = [wf EXCEPT !.impact = ImpactOf(mem)]
  /\ saved' = SavedAfter(saved, "ok")
  /\ running' = FALSE
  /\ lastOp' = "meanwhile"
  /\ UNCHANGED <<config, taskHistory, stats, undefinedFields, pc, task, observation,
                 decision, result, outcome, ghostVars, apiCalls, orchConfig,
                 orchRunning, taskQueue, qlog>>

\* the server runs with an API key: every proposer call goes to the network
NextServer ==
  \/ lastOp = "new" /\ \E f \in ServerFiles : FileReplaced(f)
  \/ lastOp \in {"new", "replaced"} /\ load
  \/ \E doc \in {None, "malformed", "valid"},
        ch \in {Changes(<<>>), Changes(<<NetworkChange>>), Changes(<<LongChange>>)} :
        handleProposeUpdate(doc, ch)
  \/ ProposeUpdateResponds
  \/ HandleCatches
  \/ AnalyzeMeanwhile
  \/ RunStep(TRUE, LLMOutcomes \ {"offline"}, {"ok"})

ServerSpec == Init /\ [][NextServer]_vars

(***************************************************************************)
(* An orchestrator constructed with {maxMemories: M}                       *)
(***************************************************************************)
\* the constructor keeps M in its own config and builds
\* new AgentCore(this.config.stateDir): the engine's store gets no config
CapSpec ==
  /\ InitAll({0}, {[OrchConfig(NotConfigured, NotConfigured) EXCEPT !.maxMemories = m] :
                     m \in {NotConfigured} \cup 1..MaxCap})
  /\ [][NextSequence]_vars

(***************************************************************************)
(* The run-loop and stop(): what has been called goes on                   *)
(***************************************************************************)
\* a task whose run throws, one whose run ends with a final decision and
\* one whose run only ends when it is stopped
StopTasks ==
  QueueTasks \cup {AgentTask("task-a", "update-task", "valid", Changes(<<NetworkChange>>))}

NextStop ==
  \/ start
  \/ Len(qlog.executions) < MaxQueued /\ \E t \in StopTasks : addTask(t, 0)
  \/ Dequeue
  \/ TaskCompleted
  \/ TaskRetried
  \/ TaskDropped
  \/ stop
  \/ RunStep(TRUE, {"offline"}, {"ok"})

\* the steps of a run that has been called are taken, and executeTask goes
\* on when the run it awaits has settled
StopSpec ==
  /\ Init
  /\ [][NextStop]_vars
  /\ WF_vars(RunStep(TRUE, {"offline"}, {"ok"}))
  /\ WF_vars(TaskCompleted \/ TaskRetried \/ TaskDropped)

(***************************************************************************)
(* Properties                                                              *)
(***************************************************************************)
HistoryOf(id) == getTaskHistory(taskHistory, id)

HasSuccessfulRecord(th, id) ==
  \E i \in 1..Len(getTaskHistory(th, id)) : getTaskHistory(th, id)[i].success

\* the threshold the caller configured: the given one, 0.7 when none is given
ConfiguredThreshold(cfg) ==
  IF cfg.autoApplyThreshold = NotConfigured THEN DefaultAutoApplyThreshold
  ELSE cfg.autoApplyThreshold

\* maxRetries as the caller configured it: the given one, 3 when none is given
ConfiguredMaxRetries(cfg) ==
  IF cfg.maxRetries = NotConfigured THEN DefaultMaxRetries ELSE cfg.maxRetries

RecordCount(th) ==
  LET lens == [i \in 1..Len(th) |-> Len(th[i].history)]
      count[i \in 0..Len(th)] == IF i = 0 THEN 0 ELSE count[i - 1] + lens[i]
  IN count[Len(th)]

\* C1: every run that has been called eventually returns to its caller
\* (normally or by rethrowing).
RunEventuallyReturns == (pc # "idle") ~> (pc = "idle")

\* C2: after the Update step the record of this iteration is the last
\* element of the rolling memory and the last element of the task's history.
UpdateRecordsInMemoryAndHistory ==
  pc = "updated" =>
    /\ Last(memories) = AgentMemory(decision, result)
    /\ HistoryOf(task.id) # <<>>
    /\ Last(HistoryOf(task.id)) = AgentMemory(decision, result)

\* C3: once four consecutive update runs on a task id have failed, the
\* Reason step of the next run on that id decides the final skip that asks
\* for human intervention.
FifthAttemptSkips ==
  (pc = "reasoned" /\ task.type = "update-task" /\ failedRuns[task.id] >= RetryCeiling + 1) =>
    (decision.action = "skip" /\ decision.final /\ decision.reasoning = TooManyAttempts)

\* C4: a task is complete for the engine exactly when its history holds a
\* record whose success flag is true.
CompleteIffSuccessfulRecord ==
  \A id \in TaskIds : isTaskComplete(taskHistory, id) <=> HasSuccessfulRecord(taskHistory, id)

\* C5: no error of a collaborator leaves run(): the run returns normally.
CollaboratorErrorsContained == outcome # "threw"

\* C6: the rolling memory never exceeds the cap and holds exactly the most
\* recent records that were inserted, in insertion order.
MemoryKeepsMostRecent ==
  /\ Len(memories) <= maxMemories(config)
  /\ memories = SliceLast(inserted, maxMemories(config))

MemoryEvictedTwice ==
  /\ lastOp = "addMemory"
  /\ Len(inserted) >= maxMemories(config) + 2
  /\ inserted[Len(inserted)] # inserted[Len(inserted) - maxMemories(config)]

\* C7: stats.totalTasks is the number of distinct task ids in taskHistory.
TotalTasksIsHistorySize ==
  stats.totalTasks = Cardinality({taskHistory[i].id : i \in 1..Len(taskHistory)})

TwoTasksInHistory ==
  /\ lastOp = "addTaskHistory"
  /\ Len(taskHistory) = 2
  /\ \E i \in 1..2 : Len(taskHistory[i].history) >= 2

\* C8: each addTaskHistory increments exactly the counter that matches the
\* record's success flag, and the two counters always add up to the number
\* of records held in all task histories.
StatsCountEachRecordOnce ==
  /\ [](stats.successfulTasks + stats.failedTasks = RecordCount(taskHistory))
  /\ [][lastOp' = "addTaskHistory" =>
          \E id \in TaskIds :
            /\ getTaskHistory(taskHistory', id) # <<>>
            /\ IF Last(getTaskHistory(taskHistory', id)).success
               THEN /\ stats'.successfulTasks = stats.successfulTasks + 1
                    /\ stats'.failedTasks = stats.failedTasks
               ELSE /\ stats'.successfulTasks = stats.successfulTasks
                    /\ stats'.failedTasks = stats.failedTasks + 1]_vars

BothCountersUsed ==
  /\ lastOp = "addTaskHistory"
  /\ stats.successfulTasks >= 1
  /\ stats.failedTasks >= 1

\* C9 (as stated): once a task is complete it is complete after every later
\* step.
CompletionNeverReverts ==
  [][\A id \in TaskIds :
        HasSuccessfulRecord(taskHistory, id) => HasSuccessfulRecord(taskHistory', id)]_vars

\* C9 (amended): a complete task stays complete over every step that is not
\* a clear() or a load().
CompletionKeptUnlessReset ==
  [][\A id \in TaskIds :
        lastOp' \notin {"clear", "load"} =>
          /\ HasSuccessfulRecord(taskHistory, id) => HasSuccessfulRecord(taskHistory', id)
          /\ isTaskComplete(taskHistory, id) => isTaskComplete(taskHistory', id)]_vars

FailureAfterCompletion ==
  /\ lastOp = "addTaskHistory"
  /\ \E id \in TaskIds :
        /\ Len(HistoryOf(id)) >= 2
        /\ isTaskComplete(taskHistory, id)
        /\ ~Last(HistoryOf(id)).success

\* C10: what a fresh store loads from the file a successful save() wrote is
\* the saved state: same memories, same task ids in the same order with the
\* same histories, same stats.
SaveLoadRoundTrip ==
  (lastOp = "save" /\ file = JsonFile(Serialize(memories, taskHistory, stats))) =>
    LoadedState(file) = [memories |-> memories, taskHistory |-> taskHistory, stats |-> stats]

\* C11: after load() has met an unreadable or malformed file (not JSON, or
\* JSON lacking memories, taskHistory or stats) the store holds a well-formed
\* empty state: all properties defined, no memories, no task history, all
\* counters 0.
LoadOfMalformedGivesEmptyState ==
  (lastOp = "load" /\ Malformed(file)) =>
    /\ undefinedFields = {}
    /\ memories = <<>>
    /\ taskHistory = <<>>
    /\ stats.totalTasks = 0 /\ stats.successfulTasks = 0 /\ stats.failedTasks = 0

\* C12: over every save(), also one that fails or is cut short, the file
\* holds the complete state saved before or the complete new state.
SavePublishesAtomically ==
  [][lastOp' = "save" =>
        \/ file' = file
        \/ file' = JsonFile(Serialize(memories, taskHistory, stats))]_vars

\* C13: a failing save() does not leave the Update step: the step ends as
\* it does when the save succeeds, with the record in memory and the run
\* going on; and every successful save writes the whole in-memory state,
\* the records whose save failed before included.
SaveFailureContained ==
  /\ [][lastOp' = "updateState" =>
          /\ memories' = AddMemoryResult(memories, AgentMemory(decision, result), config)
          /\ taskHistory' = taskHistory
          /\ stats' = stats
          /\ pc' = "updated"
          /\ outcome' = outcome /\ running' = running]_vars
  /\ []((lastOp = "updateState" /\ saved.last = "ok") =>
          file = JsonFile(Serialize(memories, taskHistory, stats)))

SavedAfterFailedSave ==
  /\ lastOp = "updateState"
  /\ saved.before \in {"fail", "partial"}
  /\ saved.last = "ok"
  /\ Len(memories) = 2
  /\ file.doc.memories = memories

\* C14: autoUpdate calls proposeUpdate only when the analysis returned
\* requiresReview = false and an impact score not above the configured
\* threshold (0 included); when it does not, it returns applied = false
\* with the impact analysis and writes nothing.
AutoUpdateAppliesOnlyBelowThreshold ==
  /\ (wf.name = "auto" /\ wf.applying) =>
        /\ ~wf.impact.requiresReview
        /\ wf.impact.impactScore <= ConfiguredThreshold(orchConfig)
  /\ (wf.name = "auto" /\ wf.phase = "done" /\ ~wf.applying /\ wf.outcome = "returned") =>
        /\ ~wf.applied
        /\ wf.impact # NoImpact
        /\ wf.output = None

\* C15: whatever threshold is configured, autoUpdate never calls
\* proposeUpdate and never writes for a change set whose impact score is
\* above 0.7; when it ends for such a change set it returns
\* requiresReview = true and applied = false.
HighImpactNeverApplied ==
  (wf.name = "auto" /\ calculateImpactScore(wf.changes) > ReviewLimit) =>
    /\ ~wf.applying
    /\ wf.output = None
    /\ wf.phase = "done" =>
          (wf.outcome = "returned" /\ wf.impact.requiresReview /\ ~wf.applied)

HighImpactDeclinedAtThresholdOne ==
  /\ wf.name = "auto" /\ wf.phase = "done"
  /\ calculateImpactScore(wf.changes) > ReviewLimit
  /\ orchConfig.autoApplyThreshold = 10
  /\ wf.impact.requiresReview

\* C16: when the run of proposeUpdate has returned, proposeUpdate raises the
\* recorded error message if the last record's success flag is false, and
\* otherwise returns the updatedYaml of that record.
ProposeRaisesIffLastRecordFailed ==
  (wf.name = "propose" /\ wf.phase = "done" /\ outcome = "returned" /\ memories # <<>>) =>
    IF ~Last(memories).success
    THEN wf.outcome = "raised" /\ wf.message = Last(memories).result.error
    ELSE wf.outcome = "returned" /\ wf.value = Last(memories).result.updatedYaml

\* C17: analyzeImpact returns requiresReview = true exactly when the
\* recorded decision is the review one; the flag is the one of the recorded
\* result and the score is the impact score of the change set.
AnalyzeReportsRecordedDecision ==
  (wf.name = "analyze" /\ wf.phase = "done" /\ wf.outcome = "returned") =>
    /\ memories # <<>>
    /\ wf.impact.requiresReview <=> (Last(memories).decision.action = "high-impact-review")
    /\ wf.impact.requiresReview = Last(memories).result.requiresReview
    /\ wf.impact.impactScore = calculateImpactScore(wf.changes)
    /\ wf.impact.recommendation = Last(memories).decision.action

ReviewFlagReturned ==
  /\ wf.name = "analyze" /\ wf.phase = "done"
  /\ wf.impact.requiresReview
  /\ wf.impact.impactScore = 9

\* C18: a batch over at least one document always returns, with one result
\* per document, total = number of documents and successful + failed =
\* total, whatever the runs record or raise; until then the loop goes on
\* after every failure.
BatchGivesOneResultPerDocument ==
  /\ (wf.name = "batch" /\ wf.phase = "done" /\ wf.docs # <<>>) =>
        /\ wf.outcome = "returned"
        /\ Len(wf.results) = Len(wf.docs)
        /\ wf.counts.total = Len(wf.docs)
        /\ wf.counts.successful + wf.counts.failed = wf.counts.total
        /\ wf.counts.successful = SuccessCount(wf.results)
        /\ wf.counts.failed =
             Cardinality({i \in 1..Len(wf.results) : ~wf.results[i].success})
  /\ (wf.name = "batch" /\ wf.phase = "batching") =>
        (Len(wf.results) < Len(wf.docs) /\ wf.outcome = None)

BatchWithThrowFailureAndSuccess ==
  /\ wf.name = "batch" /\ wf.phase = "done"
  /\ Len(wf.docs) = 3
  /\ \E i, j, k \in 1..3 :
        /\ wf.results[i].error = RunError
        /\ wf.results[j].success
        /\ ~wf.results[k].success /\ wf.results[k].error # RunError
  /\ wf.counts.successful = 1 /\ wf.counts.failed = 2

\* C19: a queued task whose execution fails is retried until it has been
\* retried maxRetries times and dropped at the failure after that: a dropped
\* task has been executed exactly maxRetries + 1 times, and no task is
\* executed more often.
DroppedAfterMaxRetries ==
  /\ \A seq \in qlog.dropped :
        qlog.executions[seq] = ConfiguredMaxRetries(orchConfig) + 1
  /\ \A seq \in 1..Len(qlog.executions) :
        qlog.executions[seq] <= ConfiguredMaxRetries(orchConfig) + 1

\* C20: the run-loop takes the head of the queue, and the queue keeps every
\* task that has not been dequeued yet behind all tasks of higher priority
\* and behind the tasks of equal priority that were added before it: the
\* head has the highest priority of these tasks, ties in order of addTask.
QueueServesHighestPriorityFirst ==
  /\ [](\A i, j \in 1..Len(taskQueue) :
          (i < j /\ taskQueue[j].retries = 0) =>
            /\ taskQueue[i].priority >= taskQueue[j].priority
            /\ (taskQueue[i].retries = 0 /\ taskQueue[i].priority = taskQueue[j].priority)
                 => taskQueue[i].seq < taskQueue[j].seq)
  /\ [][(qlog.current = NoEntry /\ qlog'.current # NoEntry) =>
          /\ taskQueue # <<>>
          /\ qlog'.current = Head(taskQueue)
          /\ taskQueue' = Tail(taskQueue)]_vars
  /\ [][lastOp' = "addTask" =>
          \E i \in 1..Len(taskQueue') :
            /\ taskQueue'[i].seq = Len(qlog'.executions)
            /\ taskQueue = SubSeq(taskQueue', 1, i - 1) \o SubSeq(taskQueue', i + 1, Len(taskQueue'))
            /\ \A j \in 1..Len(taskQueue') :
                  taskQueue'[j].retries = 0 =>
                    /\ j < i => taskQueue'[j].priority >= taskQueue'[i].priority
                    /\ j > i => taskQueue'[j].priority < taskQueue'[i].priority]_vars

LaterHigherPriorityServedFirst ==
  /\ qlog.current # NoEntry /\ qlog.current.retries = 0
  /\ Len(taskQueue) >= 2
  /\ taskQueue[1].retries = 0 /\ taskQueue[2].retries = 0
  /\ taskQueue[1].seq < qlog.current.seq
  /\ taskQueue[1].priority < qlog.current.priority
  /\ taskQueue[1].priority = taskQueue[2].priority
  /\ taskQueue[1].seq < taskQueue[2].seq

\* C21: a run is started only when no run is in progress; while a run is in
\* progress the engine stays on the task it was started for, which is the
\* current document of the batch or the task the run-loop dequeued, so the
\* records of two tasks never interleave.
RunsNeverOverlap ==
  /\ [][lastOp' = "run" => (pc = "idle" /\ task = NoTask)]_vars
  /\ [][(pc # "idle" /\ pc' # "idle") => task' = task]_vars
  /\ [](pc # "idle" =>
          \/ /\ wf.phase = "batching"
             /\ qlog.current = NoEntry
             /\ task = WorkflowTask("batch", wf.docs[Len(wf.results) + 1], wf.changes)
          \/ /\ wf.phase # "batching"
             /\ qlog.current # NoEntry
             /\ task = qlog.current.task)

SecondRunsAfterFirstReturned ==
  /\ wf.name = "batch" /\ wf.phase = "done" /\ Len(wf.results) = 2
  /\ qlog.current # NoEntry /\ qlog.current.seq = 2
  /\ qlog.executions[1] >= 1
  /\ pc = "executed"
  /\ Len(memories) >= 3
\* C22: for an update task without a document, or with an absent or empty
\* change set, Reason decides the final skip with confidence 1.0, and the
\* Update step records that decision.
MissingDataSkips ==
  (task.type = "update-task"
     /\ (task.taskYaml = None \/ ~task.changes.present \/ task.changes.list = <<>>)) =>
    /\ pc \in {"reasoned", "executed", "updated"} =>
          /\ decision.action = "skip" /\ decision.final
          /\ decision.confidence = 10
          /\ decision.reasoning = MissingData
    /\ pc = "updated" =>
          /\ Last(memories) = AgentMemory(decision, result)
          /\ result.error = None
\* C23: the impact score of every change set lies in [0,1] (0..10 tenths),
\* also with four or more high-weight changes; an absent or empty change
\* set scores 0, and scoring raises no error.
ScoreWithinUnitInterval ==
  task.type = "analyze-impact" =>
    /\ calculateImpactScore(task.changes) \in 0..10
    /\ (~task.changes.present \/ task.changes.list = <<>>) =>
          calculateImpactScore(task.changes) = 0
    /\ pc \in {"reasoned", "executed", "updated"} =>
          /\ decision.impactScore = calculateImpactScore(task.changes)
          /\ decision.impactScore \in 0..10
    /\ ~ReasonThrows(task)

FourHighWeightChangesClamped ==
  /\ pc = "reasoned"
  /\ Len(task.changes.list) >= 4
  /\ \A i \in 1..Len(task.changes.list) : AreaWeight(task.changes.list[i]) >= 3
  /\ SumWeights(task.changes.list) > 10
  /\ decision.impactScore = 10
\* C24: a change set in which no change is flagged security, serviceAccount
\* or rbac and no description is above the length threshold scores below
\* 0.3, whatever its size.
LowRiskScoresBelowThreshold ==
  (/\ task.type = "analyze-impact"
   /\ \A i \in 1..Len(task.changes.list) :
         /\ task.changes.list[i].areas \cap {"security", "serviceAccount", "rbac"} = {}
         /\ ~DescOver200(task.changes.list[i])) =>
    calculateImpactScore(task.changes) < 3
\* C25: flagging a change with the storage or the resources area strictly
\* raises the score of a change set that scores below 1, as flagging it
\* with the network area does.
StorageFlagRaisesScore ==
  (task.type = "analyze-impact" /\ calculateImpactScore(task.changes) < 10) =>
    \A i \in 1..Len(task.changes.list), area \in {"storage", "resources"} :
      area \notin task.changes.list[i].areas =>
        calculateImpactScore(Changes([task.changes.list EXCEPT ![i].areas = @ \cup {area}]))
          > calculateImpactScore(task.changes)
\* C26: every result with success true and an updated document, the current
\* one and every recorded one, carries a text the validator accepts, and it
\* is the text that was handed to the validator (the rules' output, or the
\* proposal merged with it); a result with an error has no updated document
\* and no success flag, as when the validator rejects the text.
SuccessMeansValidated ==
  /\ \A r \in {result} \cup {memories[i].result : i \in 1..Len(memories)} :
        /\ (r.success /\ r.updatedYaml # None) => ~ValidateThrows(r.updatedYaml)
        /\ r.error # None => (~r.success /\ r.updatedYaml = None)
  /\ (pc = "executed" /\ decision.action = "apply-rules-only") =>
        LET updated == Latest(ApplyRules(task.taskYaml, task.changes.list), task.taskYaml) IN
        IF ValidateThrows(updated)
        THEN result = ErrorResult("Tekton Task schema validation failed")
        ELSE result.success /\ result.updatedYaml = updated
  /\ (pc = "executed" /\ decision.action \in {"propose-with-llm", "auto-apply"}
        /\ result.success) =>
        LET latest == Latest(ApplyRules(task.taskYaml, task.changes.list), task.taskYaml) IN
        \E how \in LLMOutcomes :
          /\ ~ProposeThrows(how)
          /\ result.updatedYaml = mergeYAMLs(Proposed(how, latest), latest)

ValidatedThenRejected ==
  /\ pc = "updated"
  /\ Len(memories) = 2
  /\ memories[1].result.success /\ memories[1].result.updatedYaml = "valid+nad"
  /\ memories[2].result.error = "Tekton Task schema validation failed"
  /\ memories[2].result.updatedYaml = None
\* C27: no step of a workflow (its call, the runs it makes, its return or
\* raise) changes the task queue; the queue changes only when addTask
\* inserts a task, when the run-loop takes the head, and when the run-loop
\* re-queues a failed task.
WorkflowsLeaveQueueAlone ==
  /\ [][wf' # wf => taskQueue' = taskQueue]_vars
  /\ [][(wf.phase \notin {"idle", "done"}) =>
          (taskQueue' = taskQueue \/ lastOp' = "addTask")]_vars
  /\ [][taskQueue' # taskQueue =>
          \/ lastOp' = "addTask"
          \/ lastOp' = "run" /\ orchRunning /\ taskQueue' = Tail(taskQueue)
          \/ lastOp' = "retried" /\ qlog.current # NoEntry]_vars

WorkflowWroteNextToQueuedTasks ==
  /\ wf.name = "auto" /\ wf.phase = "done" /\ wf.applied
  /\ ~orchRunning /\ runs = 2
  /\ Len(taskQueue) = 2
  /\ taskQueue[1].seq = 1 /\ taskQueue[2].seq = 2
UpdateDecisionMatchesComplexity ==
  (/\ pc = "reasoned" /\ task.type = "update-task"
   /\ task.taskYaml # None /\ task.changes.present /\ task.changes.list # <<>>
   /\ Len(observation.previousAttempts) <= RetryCeiling) =>
    LET complex ==
          \/ ~ApplyRules(task.taskYaml, task.changes.list).changed
          \/ \E i \in 1..Len(task.changes.list) : DescOver100(task.changes.list[i])
    IN /\ ~decision.final
       /\ decision.action = IF complex THEN "propose-with-llm" ELSE "apply-rules-only"
       /\ decision.confidence = IF complex THEN 8 ELSE 5
\* C30: the run of a task whose kind is none of update-task, analyze-impact
\* and monitor-changes makes exactly one iteration: Reason decides the final
\* skip with confidence 0, Execute changes nothing and returns the skip
\* with the decision's reasoning as its reason, one record is appended, and
\* the run returns without raising.
UnknownKindSkipsOnce ==
  /\ []((task # NoTask
          /\ task.type \notin {"update-task", "analyze-impact", "monitor-changes"}) =>
          /\ pc \in {"reasoned", "executed", "updated"} =>
                decision = AgentDecision("skip", "Unknown task type", 0, TRUE, -1, -1)
          /\ pc \in {"executed", "updated"} =>
                /\ result.skipped /\ result.reason = decision.reasoning
                /\ result.error = None /\ result.updatedYaml = None
          /\ pc = "updated" =>
                (Len(memories) = 1 /\ memories[1] = AgentMemory(decision, result))
          /\ iterations <= 1
          /\ (pc = "loop" /\ iterations = 1) => ~running)
  /\ [][(task # NoTask
          /\ task.type \notin {"update-task", "analyze-impact", "monitor-changes"}) =>
          /\ lastOp' = "execute" => UNCHANGED <<memories, taskHistory, stats, file>>
          /\ (pc # "idle" /\ pc' = "idle") =>
                (outcome' = "returned" /\ iterations = 1 /\ Len(memories') = 1)]_vars

UnknownKindRunReturned ==
  /\ pc = "idle" /\ lastOp = "return" /\ outcome = "returned"
  /\ iterations = 1
  /\ Len(memories) = 1
  /\ memories[1].decision.reasoning = "Unknown task type"
  /\ memories[1].result.reason = "Unknown task type"
\* C31: executing a "high-impact-review" or a "skip" decision gives a result
\* that no answer or error of the rule applier or of the proposer can
\* change, without an error and without an updated document, and leaves the
\* store and the state file alone; the review result carries the task's
\* change set and the decision's score, the skip result the decision's
\* reasoning.
ReviewAndSkipCallNoCollaborator ==
  /\ []((pc = "executed" /\ decision.action \in {"high-impact-review", "skip"}) =>
          /\ \A how \in LLMOutcomes : execute(decision, task, how) = result
          /\ result.error = None /\ result.updatedYaml = None
          /\ IF decision.action = "skip"
             THEN result.skipped /\ result.reason = decision.reasoning
             ELSE /\ result.success /\ result.requiresReview
                  /\ result.changes = task.changes
                  /\ result.impactScore = calculateImpactScore(task.changes))
  /\ [][(lastOp' = "execute" /\ decision.action \in {"high-impact-review", "skip"}) =>
          UNCHANGED <<memories, taskHistory, stats, file>>]_vars

ReviewOfUnparsableDocument ==
  /\ pc = "executed" /\ decision.action = "high-impact-review"
  /\ task.taskYaml = "malformed"
  /\ result.success /\ result.impactScore = 9
  /\ result.changes = Changes(<<SecurityChange>>)
\* C32: when the Update step of an iteration is over and its save did not
\* fail, the state file is a complete document and what load() builds from
\* it is the in-memory state: the same memories, task history and stats.
PersistedEqualsMemoryAfterUpdate ==
  (pc = "updated" /\ saved.last = "ok") =>
    /\ Loadable(file) /\ file.lacks = {}
    /\ LoadedState(file) =
         [memories |-> memories, taskHistory |-> taskHistory, stats |-> stats]
    /\ Last(file.doc.memories) = AgentMemory(decision, result)

SecondIterationPersisted ==
  /\ pc = "updated" /\ iterations = 2
  /\ saved.before = "ok" /\ saved.last = "ok"
  /\ Len(memories) = 2
  /\ file.doc.memories = memories
\* C33: getRecentMemories(n) is, for every n >= 0, the last
\* min(n, memories.length) records in stored order, so n = 0 gives the empty
\* sequence; what Observe gathers is getRecentMemories(5).
RecentMemoriesAreLastN ==
  /\ \A n \in 0..(MaxCap + 2) :
        LET k == IF n < Len(memories) THEN n ELSE Len(memories)
            recent == getRecentMemories(memories, n)
        IN /\ Len(recent) = k
           /\ \A i \in 1..k : recent[i] = memories[Len(memories) - k + i]
  /\ Observation(memories, taskHistory, [id |-> "task-a"]).memory
       = getRecentMemories(memories, 5)
\* C34: when proposeUpdate returns normally, the value it returns is a
\* document text, the updatedYaml of a validated successful result of that
\* run, and the same text is what it wrote when an output path was given; it
\* never returns or writes an absent document, also after a "skip" decision.
ProposeReturnsValidatedDocument ==
  (wf.name = "propose" /\ wf.phase = "done" /\ wf.outcome = "returned") =>
    /\ wf.value # None
    /\ memories # <<>>
    /\ Last(memories).decision.action \in {"apply-rules-only", "propose-with-llm"}
    /\ Last(memories).result.success /\ Last(memories).result.error = None
    /\ wf.value = Last(memories).result.updatedYaml
    /\ wf.outputPath => wf.output = wf.value
    /\ ~wf.outputPath => wf.output = None
\* C35: in every recorded MemoryRecord the record's success flag is true
\* exactly when the success flag of its ExecutionResult is true, records of
\* "skip" decisions included.
RecordFlagMatchesResultFlag ==
  \A i \in 1..Len(memories) :
    memories[i].success <=> memories[i].result.success
QueueSortedByPriority ==
  \A i, j \in 1..Len(taskQueue) :
    i < j => taskQueue[i].priority >= taskQueue[j].priority
\* C38: an orchestrator constructed with maxMemories = M (100 when none is
\* given) has an engine whose store enforces that cap: after any sequence of
\* workflow or queue runs, memories.length <= M.
ConfiguredMaxMemories(cfg) ==
  IF cfg.maxMemories = NotConfigured THEN DefaultMaxMemories ELSE cfg.maxMemories

OrchestratorCapEnforced == Len(memories) <= ConfiguredMaxMemories(orchConfig)
\* C39: once stop() has been called on an active run-loop, no task is
\* dequeued or started, the run in progress begins no further iteration,
\* every task in the queue stays there, and the loop ends: start() finds
\* running false at its next test, with no task in execution.
StopEndsRunLoop ==
  /\ [][~orchRunning =>
          /\ qlog'.current \in {qlog.current, NoEntry}
          /\ runs' = runs
          /\ qlog.current # NoEntry => lastOp' # "observe"
          /\ \A i \in 1..Len(taskQueue) :
                \E j \in 1..Len(taskQueue') : taskQueue'[j] = taskQueue[i]]_vars
  /\ (lastOp = "stop") ~> RunLoopOver

StoppedRunReturnedWithTasksQueued ==
  /\ ~orchRunning
  /\ qlog.current.task = AgentTask("task-a", "update-task", "valid", Changes(<<NetworkChange>>))
  /\ RunReturned
  /\ iterations = 1
  /\ taskQueue # <<>>
====
